---- MODULE Spec2Model ----
(***************************************************************************)
(* Obstacle-avoidance constraint of constrained_ik                         *)
(* (constrained_ik/src/constraints/avoid_obstacles.cpp).                   *)
(*                                                                         *)
(* Doubles are fixed-point integers in thousandths (0.3 is 300).  Link     *)
(* names are the strings "a" < "b" < "c"; std::map<std::string, ...>       *)
(* iterates them in that order.                                            *)
(***************************************************************************)
EXTENDS Integers, Sequences, FiniteSets, TLC

VARIABLES
    links_,        \* std::map<std::string, LinkAvoidance>: name -> LinkAvoidance
    link_names_,   \* std::vector<std::string>
    link_models_,  \* std::set<const LinkModel*>, by link name
    initialized_,  \* Constraint::initialized_
    ik_,           \* TRUE once init(ik) has stored the solver
    kin,           \* the kinematic chain of the solver: its links, base to tip
    defaulted,     \* history: init took the "no links were specified" branch
    output,        \* what the last evalConstraint call produced
    last,          \* history: the last call and its inputs
    set_calls,     \* number of setter calls so far
    load_calls     \* number of loadParameters calls so far

vars == <<links_, link_names_, link_models_, initialized_, ik_, kin, defaulted,
          output, last, set_calls, load_calls>>

----------------------------------------------------------------------------
(* Bounds of the model *)

MaxSetCalls == 1
MaxLoadCalls == 1

LinkNames == {"a", "b", "c"}

\* The chains a solver may be built on (links listed base to tip).
Chains == {<<"a", "c">>, <<"b", "c">>, <<"b", "a">>}

----------------------------------------------------------------------------
(* Constants of the source, in thousandths where they are doubles *)

DEFAULT_WEIGHT == 1000
DEFAULT_MIN_DISTANCE == 100
DEFAULT_AVOIDANCE_DISTANCE == 300
DEFAULT_AMPLITUDE == 300
DEFAULT_SHIFT == 5
DEFAULT_ZERO_POINT == 10

Milli == 10 * 100

\* A member the LinkAvoidance constructor does not initialise.
Indeterminate == -1

\* What a read of an uninitialised double / int may yield.
IndeterminateDoubles == {0, 297}
IndeterminateInts == {-7, 0, 3}

Range(s) == {s[i] : i \in 1..Len(s)}

----------------------------------------------------------------------------
(* std::map iteration order *)

NameRank(n) == CASE n = "a" -> 1 [] n = "b" -> 2 [] n = "c" -> 3

RECURSIVE MapOrder(_)
MapOrder(S) ==
    IF S = {} THEN <<>>
    ELSE LET m == CHOOSE x \in S : \A y \in S : NameRank(x) <= NameRank(y)
         IN <<m>> \o MapOrder(S \ {m})

----------------------------------------------------------------------------
(* LinkAvoidance and the configuration calls *)

LinkAvoidance(link_name) ==
    [weight |-> DEFAULT_WEIGHT,
     min_distance |-> DEFAULT_MIN_DISTANCE,
     avoidance_distance |-> DEFAULT_AVOIDANCE_DISTANCE,
     amplitude |-> DEFAULT_AMPLITUDE,
     jac_solver |-> FALSE,
     num_robot_joints |-> Indeterminate,
     num_inboard_joints |-> Indeterminate,
     link_name |-> link_name]

\* cfg is [links, names]: the pair (links_, link_names_).
addLinkTo(cfg, name) ==
    IF name \in Range(cfg.names) THEN cfg
    ELSE [links |-> [n \in DOMAIN cfg.links \cup {name} |->
                        IF n \in DOMAIN cfg.links THEN cfg.links[n]
                        ELSE LinkAvoidance(name)],
          names |-> Append(cfg.names, name)]

setField(cfg, name, field, value) ==
    IF name \in DOMAIN cfg.links
    THEN [cfg EXCEPT !.links[name][field] = value]
    ELSE cfg

Fields == <<"amplitude", "min_distance", "avoidance_distance", "weight">>

DefaultOf(field) ==
    CASE field = "amplitude" -> DEFAULT_AMPLITUDE
      [] field = "min_distance" -> DEFAULT_MIN_DISTANCE
      [] field = "avoidance_distance" -> DEFAULT_AVOIDANCE_DISTANCE
      [] field = "weight" -> DEFAULT_WEIGHT

\* The value a caller passes to a setter.
SetterValue(field) ==
    CASE field = "amplitude" -> 600
      [] field = "min_distance" -> 60
      [] field = "avoidance_distance" -> 150
      [] field = "weight" -> 2000

NoCall == [op |-> "none", cdata |-> <<>>, xml |-> <<>>, prev |-> <<>>]

NoOutput == [kind |-> "none", names |-> <<>>, error |-> <<>>,
             jacobian |-> <<>>, status |-> TRUE, link_status |-> <<>>]

Alive == output.kind # "crash"

Init ==
    /\ links_ = <<>>
    /\ link_names_ = <<>>
    /\ link_models_ = {}
    /\ initialized_ = FALSE
    /\ ik_ = FALSE
    /\ kin \in Chains
    /\ defaulted = FALSE
    /\ output = NoOutput
    /\ last = NoCall
    /\ set_calls = 0
    /\ load_calls = 0

addAvoidanceLink(name) ==
    /\ Alive /\ ~ik_
    /\ LET r == addLinkTo([links |-> links_, names |-> link_names_], name)
       IN /\ links_' = r.links
          /\ link_names_' = r.names
    /\ last' = [NoCall EXCEPT !.op = "addAvoidanceLink"]
    /\ UNCHANGED <<link_models_, initialized_, ik_, kin, defaulted, output,
                   set_calls, load_calls>>

setter(field, name) ==
    /\ Alive /\ ~ik_
    /\ set_calls < MaxSetCalls
    /\ name \in DOMAIN links_
    /\ LET r == setField([links |-> links_, names |-> link_names_], name, field,
                         SetterValue(field))
       IN links_' = r.links
    /\ set_calls' = set_calls + 1
    /\ last' = [NoCall EXCEPT !.op = "set"]
    /\ UNCHANGED <<link_names_, link_models_, initialized_, ik_, kin, defaulted,
                   output, load_calls>>

setAmplitude == \E name \in LinkNames : setter("amplitude", name)
setMinDistance == \E name \in LinkNames : setter("min_distance", name)
setAvoidanceDistance == \E name \in LinkNames : setter("avoidance_distance", name)
setWeight == \E name \in LinkNames : setter("weight", name)

----------------------------------------------------------------------------
(* loadParameters *)

\* The parameter blocks a caller may pass: a list of link names (or none), and
\* for each member an array of the list's length ("match"), one element longer
\* ("long"), or no such member ("absent").
NameLists == {<<"b", "a">>, <<"a", "a">>}
XmlShapes ==
    {[f \in Range(Fields) |-> "match"]}
    \cup {[f \in Range(Fields) |-> IF f = g THEN sh ELSE "match"] :
            g \in Range(Fields), sh \in {"long", "absent"}}

XmlInputs ==
    {[has_names |-> TRUE, names |-> ns, shape |-> sh] : ns \in NameLists, sh \in XmlShapes}
    \cup {[has_names |-> FALSE, names |-> <<>>,
           shape |-> [f \in Range(Fields) |-> "match"]]}

\* The array the block holds for a member: its i-th value is particular to
\* the member and to i.
XmlArray(field, n) == [i \in 1..n |-> SetterValue(field) + 10 * i]

\* getParam(local_xml, field, vector): whether the member is there, and its array.
getParam(xml, field) ==
    LET n == Len(xml.names)
    IN CASE xml.shape[field] = "absent" -> [present |-> FALSE, arr |-> <<>>]
         [] xml.shape[field] = "match" -> [present |-> TRUE, arr |-> XmlArray(field, n)]
         [] xml.shape[field] = "long" -> [present |-> TRUE, arr |-> XmlArray(field, n + 1)]

\* Mutant: an array of the wrong length is kept.
memberArrayKept(xml, field) ==
    LET p == getParam(xml, field)
    IN IF p.present THEN p.arr ELSE <<>>

\* One of the four blocks that read a member: the vector the loop then sees.
memberArray(xml, field) ==
    LET p == getParam(xml, field)
    IN IF p.present
       THEN IF Len(xml.names) # Len(p.arr) THEN <<>> ELSE p.arr
       ELSE <<>>

applyMember(cfg, name, field, arr, i) ==
    IF arr # <<>> THEN setField(cfg, name, field, arr[i]) ELSE cfg

RECURSIVE loadLoop(_, _, _)
loadLoop(i, xml, cfg) ==
    IF i > Len(xml.names) THEN cfg
    ELSE LET name == xml.names[i]
             c0 == addLinkTo(cfg, name)
             c1 == applyMember(c0, name, "amplitude", memberArray(xml, "amplitude"), i)
             c2 == applyMember(c1, name, "min_distance", memberArray(xml, "min_distance"), i)
             c3 == applyMember(c2, name, "avoidance_distance",
                               memberArray(xml, "avoidance_distance"), i)
             c4 == applyMember(c3, name, "weight", memberArray(xml, "weight"), i)
         IN loadLoop(i + 1, xml, c4)

loadParameters ==
    /\ Alive /\ ~ik_
    /\ load_calls < MaxLoadCalls
    /\ \E xml \in XmlInputs :
        LET cfg == [links |-> links_, names |-> link_names_]
            r == IF xml.has_names THEN loadLoop(1, xml, cfg) ELSE cfg
        IN /\ links_' = r.links
           /\ link_names_' = r.names
           /\ last' = [NoCall EXCEPT !.op = "loadParameters", !.xml = xml,
                                     !.prev = links_]
    /\ load_calls' = load_calls + 1
    /\ UNCHANGED <<link_models_, initialized_, ik_, kin, defaulted, output, set_calls>>

----------------------------------------------------------------------------
(* init: binding to the solver's chain *)

\* BasicKin, as init uses it.
numJoints(chain) == Len(chain)
getLinkNames(chain) == chain
getSubChain(chain, link_name) == link_name \in Range(chain)
getNrOfJoints(chain, link_name) ==
    CHOOSE i \in 1..Len(chain) : chain[i] = link_name
getLinkModels(chain) == Range(chain)

\* Mutant: binding goes on after a sub-chain could not be made.
RECURSIVE initLoopNoReturn(_, _, _)
initLoopNoReturn(order, links, chain) ==
    IF order = <<>> THEN [links |-> links, ok |-> TRUE]
    ELSE LET n == Head(order)
             l1 == [links EXCEPT ![n].num_robot_joints = numJoints(chain)]
         IN IF ~getSubChain(chain, n)
            THEN [initLoopNoReturn(Tail(order), l1, chain) EXCEPT !.ok = FALSE]
            ELSE initLoopNoReturn(Tail(order),
                    [l1 EXCEPT ![n].num_inboard_joints = getNrOfJoints(chain, n),
                               ![n].jac_solver = TRUE], chain)

\* The loop over links_: the links as left, and whether it ran to its end.
RECURSIVE initLoop(_, _, _)
initLoop(order, links, chain) ==
    IF order = <<>> THEN [links |-> links, ok |-> TRUE]
    ELSE LET n == Head(order)
             l1 == [links EXCEPT ![n].num_robot_joints = numJoints(chain)]
         IN IF ~getSubChain(chain, n)
            THEN [links |-> l1, ok |-> FALSE]
            ELSE initLoop(Tail(order),
                    [l1 EXCEPT ![n].num_inboard_joints = getNrOfJoints(chain, n),
                               ![n].jac_solver = TRUE], chain)

init ==
    /\ Alive /\ ~ik_
    /\ LET names == IF Len(link_names_) = 0 THEN getLinkNames(kin) ELSE link_names_
           r == initLoop(MapOrder(DOMAIN links_), links_, kin)
       IN /\ link_names_' = names
          /\ defaulted' = (Len(link_names_) = 0)
          /\ links_' = r.links
          /\ initialized_' = r.ok
          /\ link_models_' =
                IF r.ok
                THEN link_models_ \cup {m \in getLinkModels(kin) : m \in Range(names)}
                ELSE link_models_
    /\ ik_' = TRUE
    /\ last' = [NoCall EXCEPT !.op = "init"]
    /\ UNCHANGED <<kin, output, set_calls, load_calls>>

----------------------------------------------------------------------------
(* The snapshot of one evalConstraint call: AvoidObstaclesData *)

\* What the collision query may report for a link: distance (thousandths), the
\* closest point on the link and the avoidance direction (base frame).
DistanceInfos ==
    {[distance |-> 60, link_point |-> <<1, 0, 1>>, avoidance_vector |-> <<0, 1, 0>>],
     [distance |-> 100, link_point |-> <<0, 1, 2>>, avoidance_vector |-> <<1, 0, 0>>]}

\* The joint values of the solver state, one per joint of the chain.
JointStates == {<<0, 0>>, <<0, 1>>}

\* The snapshots a call may build.  The query is made for link_models_ and the
\* map is only ever searched for the names of links_: entries under other
\* names change nothing and are left out.
AvoidObstaclesData(links, link_models) ==
    {[joints |-> j, distance_info_map_ |-> m] :
        j \in JointStates,
        m \in UNION {[S -> DistanceInfos] : S \in SUBSET (DOMAIN links \cup link_models)}}

----------------------------------------------------------------------------
(* The Jacobian of a sub-chain (KDL), at a reference point on the link *)

Cross(u, v) == <<u[2] * v[3] - u[3] * v[2],
                 u[3] * v[1] - u[1] * v[3],
                 u[1] * v[2] - u[2] * v[1]>>
Dot(u, v) == u[1] * v[1] + u[2] * v[2] + u[3] * v[3]
Minus(u, v) == <<u[1] - v[1], u[2] - v[2], u[3] - v[3]>>

\* Joint i is revolute about z (joint value 0) or about y (joint value 1), at
\* height i - 1 on the z axis of the base.
JointAxis(i, joint_array) == IF joint_array[i] = 0 THEN <<0, 0, 1>> ELSE <<0, 1, 0>>
JointOrigin(i) == <<0, 0, i - 1>>

\* Column i of the top three rows of the Jacobian after changeRefPoint(link_point):
\* the linear velocity of the point for unit velocity of joint i.
JntToJac(joint_array, link_point, i) ==
    Cross(JointAxis(i, joint_array), Minus(link_point, JointOrigin(i)))

----------------------------------------------------------------------------
(* calcError, calcJacobian, checkStatus *)

\* std::exp on the arguments the model's distances produce, in thousandths.
Exp(x) ==
    CASE x = -5 -> 7 [] x = -4 -> 18 [] x = -3 -> 50 [] x = -2 -> 135
      [] x = -1 -> 368 [] x = 0 -> 1000 [] x = 1 -> 2718 [] x = 2 -> 7389
      [] x = 3 -> 20086 [] x = 4 -> 54598 [] x = 5 -> 148413

\* The values calcError may return: dist_err is resized to one element and
\* written only when the link has a distance entry.
calcError(cdata, link) ==
    IF link.link_name \in DOMAIN cdata.distance_info_map_
    THEN LET dist == cdata.distance_info_map_[link.link_name].distance
             scale_x == link.avoidance_distance \div (DEFAULT_ZERO_POINT + DEFAULT_SHIFT)
             scale_y == link.amplitude
         IN {(scale_y * Milli) \div (Milli + Exp((dist \div scale_x) - DEFAULT_SHIFT))}
    ELSE IndeterminateDoubles

ReadInt(member) == IF member = Indeterminate THEN IndeterminateInts ELSE {member}

JacCrash == [crash |-> TRUE, row |-> <<>>]

jacobianRow(cdata, link, inboard, total, cols) ==
    IF inboard < 0 \/ total < 0 THEN JacCrash
    ELSE IF link.link_name \in DOMAIN cdata.distance_info_map_
    THEN IF ~link.jac_solver \/ inboard > Len(cdata.joints) \/ cols > total
         THEN JacCrash
         ELSE LET info == cdata.distance_info_map_[link.link_name]
              IN [crash |-> FALSE,
                  row |-> [c \in 1..total |->
                            IF c <= cols
                            THEN Dot(info.avoidance_vector,
                                     JntToJac(cdata.joints, info.link_point, c))
                            ELSE 0]]
    ELSE [crash |-> FALSE, row |-> [c \in 1..total |-> 0]]

\* Mutant: the projected block is written over every column of the row.
calcJacobianAllColumns(cdata, link) ==
    {jacobianRow(cdata, link, inboard, total, total) :
        inboard \in ReadInt(link.num_inboard_joints),
        total \in ReadInt(link.num_robot_joints)}

\* The outcomes of calcJacobian: a 1 x num_robot_joints_ row, or a crash (a null
\* jac_solver_ used, a matrix of indeterminate size that cannot be made).
calcJacobian(cdata, link) ==
    {jacobianRow(cdata, link, inboard, total, inboard) :
        inboard \in ReadInt(link.num_inboard_joints),
        total \in ReadInt(link.num_robot_joints)}

\* Mutant: a link exactly at its minimum distance is reported as too close.
checkStatusInclusive(cdata, link) ==
    IF link.link_name \in DOMAIN cdata.distance_info_map_
    THEN ~(cdata.distance_info_map_[link.link_name].distance <= link.min_distance)
    ELSE TRUE

checkStatus(cdata, link) ==
    IF link.link_name \in DOMAIN cdata.distance_info_map_
    THEN IF cdata.distance_info_map_[link.link_name].distance < link.min_distance
         THEN FALSE
         ELSE TRUE
    ELSE TRUE

----------------------------------------------------------------------------
(* evalConstraint *)

Crashed == [NoOutput EXCEPT !.kind = "crash"]

\* ConstraintResults::append, with the name of the link the entry came from.
append(out, name, tmp) ==
    [kind |-> "contribution",
     names |-> Append(out.names, name),
     error |-> Append(out.error, tmp.error),
     jacobian |-> Append(out.jacobian, tmp.jacobian),
     status |-> (out.status /\ tmp.status),
     link_status |-> Append(out.link_status, tmp.status)]

\* Mutant: the loop ends at the first link whose status is false.
RECURSIVE evalLoopShortCircuit(_, _, _, _)
evalLoopShortCircuit(order, links, cdata, out) ==
    IF order = <<>> THEN {out}
    ELSE LET link == links[Head(order)]
         IN UNION {IF j.crash THEN {Crashed}
                   ELSE IF ~checkStatus(cdata, link)
                   THEN {append(out, Head(order),
                                [error |-> e, jacobian |-> j.row, status |-> FALSE])}
                   ELSE evalLoopShortCircuit(Tail(order), links, cdata,
                            append(out, Head(order),
                                   [error |-> e, jacobian |-> j.row, status |-> TRUE])) :
                   e \in calcError(cdata, link), j \in calcJacobian(cdata, link)}

\* The loop over links_: every output it may end with.
RECURSIVE evalLoop(_, _, _, _)
evalLoop(order, links, cdata, out) ==
    IF order = <<>> THEN {out}
    ELSE LET link == links[Head(order)]
         IN UNION {IF j.crash THEN {Crashed}
                   ELSE evalLoop(Tail(order), links, cdata,
                            append(out, Head(order),
                                   [error |-> e, jacobian |-> j.row,
                                    status |-> checkStatus(cdata, link)])) :
                   e \in calcError(cdata, link), j \in calcJacobian(cdata, link)}

\* Mutant: the links are visited in the order they were added.
evalOrderInserted(links, names) ==
    SelectSeq(names, LAMBDA n : n \in DOMAIN links)

\* The order in which the iterator of links_ visits the links.
evalOrder(links, names) == MapOrder(DOMAIN links)

evalConstraint ==
    /\ Alive /\ ik_
    /\ \E cdata \in AvoidObstaclesData(links_, link_models_) :
        /\ output' \in evalLoop(evalOrder(links_, link_names_), links_, cdata,
                                [NoOutput EXCEPT !.kind = "contribution"])
        /\ last' = [NoCall EXCEPT !.op = "evalConstraint", !.cdata = cdata]
    /\ UNCHANGED <<links_, link_names_, link_models_, initialized_, ik_, kin,
                   defaulted, set_calls, load_calls>>

----------------------------------------------------------------------------
(* Specifications *)

\* Programmatic configuration, binding and evaluation.
Next ==
    \/ \E name \in LinkNames : addAvoidanceLink(name)
    \/ setAmplitude
    \/ setMinDistance
    \/ setAvoidanceDistance
    \/ init
    \/ evalConstraint

Spec == Init /\ [][Next]_vars

\* Configuration alone: the setters and the parameter block.
NextConfig ==
    \/ \E name \in LinkNames : addAvoidanceLink(name)
    \/ setAmplitude
    \/ setMinDistance
    \/ setAvoidanceDistance
    \/ setWeight
    \/ loadParameters

SpecConfig == Init /\ [][NextConfig]_vars

----------------------------------------------------------------------------
(* Properties *)

Evaluated == last.op = "evalConstraint" /\ output.kind = "contribution"
Map == last.cdata.distance_info_map_
EvaluatedLinks == 1..Len(output.names)
LinkAt(k) == links_[output.names[k]]

\* C1: a configured link with no proximity entry in the snapshot contributes
\* an error of exactly 0 (stated for a constraint whose binding succeeded).
C1_NoEntryZeroError ==
    (Evaluated /\ initialized_) =>
        \A k \in EvaluatedLinks :
            output.names[k] \notin DOMAIN Map => output.error[k] = 0

\* C2: once binding has failed, every evalConstraint call reports the
\* constraint invalid; it neither returns per-link contributions nor fails.
C2_InvalidReported ==
    (last.op = "evalConstraint" /\ ~initialized_) => output.kind = "invalid"

\* C3: the status of a link is false exactly when the snapshot holds an entry
\* for it whose distance is strictly below the link's min_distance_.
C3_StatusIffTooClose ==
    Evaluated =>
        \A k \in EvaluatedLinks :
            output.link_status[k] = FALSE <=>
                (/\ output.names[k] \in DOMAIN Map
                 /\ Map[output.names[k]].distance < LinkAt(k).min_distance)

C3_Witness ==
    /\ Evaluated
    /\ \E k \in EvaluatedLinks :
        /\ output.names[k] \in DOMAIN Map
        /\ Map[output.names[k]].distance = LinkAt(k).min_distance
        /\ output.link_status[k] = TRUE
    /\ \E k \in EvaluatedLinks : output.link_status[k] = FALSE

\* C4: the Jacobian row of a bound link has num_robot_joints_ columns; it is
\* all zero when the link has no entry, and with an entry every column past
\* the first num_inboard_joints_ is zero.
C4_JacobianRowShape ==
    Evaluated =>
        \A k \in EvaluatedLinks :
            LinkAt(k).jac_solver =>
                LET row == output.jacobian[k]
                IN /\ Len(row) = LinkAt(k).num_robot_joints
                   /\ Len(row) = numJoints(kin)
                   /\ output.names[k] \notin DOMAIN Map =>
                        \A c \in 1..Len(row) : row[c] = 0
                   /\ \A c \in 1..Len(row) :
                        c > LinkAt(k).num_inboard_joints => row[c] = 0

C4_Witness ==
    /\ Evaluated
    /\ \E k \in EvaluatedLinks :
        /\ LinkAt(k).jac_solver
        /\ output.names[k] \in DOMAIN Map
        /\ LinkAt(k).num_inboard_joints < LinkAt(k).num_robot_joints
        /\ output.jacobian[k][1] # 0
        /\ output.jacobian[k][2] = 0

\* C5: after init found no link configured, evalConstraint produces one error
\* entry, one Jacobian row and one status per link of the chain.
C5_DefaultedChainEvaluated ==
    (last.op = "evalConstraint" /\ defaulted) =>
        /\ output.kind = "contribution"
        /\ Range(output.names) = Range(getLinkNames(kin))
        /\ Len(output.error) = Len(getLinkNames(kin))
        /\ Len(output.jacobian) = Len(getLinkNames(kin))

\* C6: on a bound constraint with n configured links evalConstraint evaluates
\* all n of them, whatever their statuses, and returns n errors, n Jacobian
\* rows and the conjunction of the n statuses.
C6_AllLinksAggregated ==
    (last.op = "evalConstraint" /\ initialized_) =>
        LET n == Cardinality(DOMAIN links_)
        IN /\ output.kind = "contribution"
           /\ Range(output.names) = DOMAIN links_
           /\ Len(output.names) = n
           /\ Len(output.error) = n
           /\ Len(output.jacobian) = n
           /\ Len(output.link_status) = n
           /\ output.status = (\A k \in 1..n : output.link_status[k])

C6_Witness ==
    /\ last.op = "evalConstraint" /\ initialized_
    /\ Len(output.error) >= 2
    /\ output.link_status[1] = FALSE
    /\ output.link_status[2] = TRUE
    /\ output.status = FALSE

Listed == Range(last.xml.names)
LastIndex(names, n) ==
    CHOOSE i \in 1..Len(names) : names[i] = n /\ \A j \in (i + 1)..Len(names) : names[j] # n
Before(n, f) == IF n \in DOMAIN last.prev THEN last.prev[n][f] ELSE DefaultOf(f)

C9_NameOrder ==
    (Evaluated /\ initialized_) =>
        /\ Range(output.names) = DOMAIN links_
        /\ \A k \in EvaluatedLinks :
            /\ k > 1 => NameRank(output.names[k - 1]) < NameRank(output.names[k])
            /\ output.error[k] \in calcError(last.cdata, LinkAt(k))
            /\ [crash |-> FALSE, row |-> output.jacobian[k]]
                    \in calcJacobian(last.cdata, LinkAt(k))

\* C9 (as stated): the k-th entry of the result belongs to the k-th link added.
C9_InsertionOrder ==
    (Evaluated /\ initialized_ /\ ~defaulted) => output.names = link_names_

C9_Witness ==
    /\ Evaluated /\ initialized_ /\ ~defaulted
    /\ link_names_ = <<"b", "a">>
    /\ output.names = <<"a", "b">>
    /\ "a" \in DOMAIN Map /\ "b" \notin DOMAIN Map
    /\ output.jacobian[1] # output.jacobian[2]

Bound(n) ==
    /\ links_[n].jac_solver
    /\ links_[n].num_inboard_joints = getNrOfJoints(kin, n)
    /\ links_[n].num_robot_joints = numJoints(kin)

\* C10: init ends in one of two ways.  Either every configured link has its
\* inboard joint count, a Jacobian solver and the chain's joint count, and the
\* link set of the collision query is built; or the constraint is marked not
\* initialised, the links before the first one without a sub-chain are bound,
\* that link and all after it have no solver, and the link set is not built.
C10_BindOutcomes ==
    last.op = "init" =>
        \/ /\ initialized_
           /\ \A n \in DOMAIN links_ : Bound(n)
           /\ link_models_ = Range(kin) \cap Range(link_names_)
        \/ /\ ~initialized_
           /\ link_models_ = {}
           /\ \E f \in DOMAIN links_ :
                /\ ~getSubChain(kin, f)
                /\ \A n \in DOMAIN links_ :
                    IF NameRank(n) < NameRank(f)
                    THEN Bound(n)
                    ELSE /\ ~links_[n].jac_solver
                         /\ links_[n].num_inboard_joints = Indeterminate

C10_Witness ==
    /\ last.op = "init" /\ ~initialized_
    /\ \E f \in DOMAIN links_, n \in DOMAIN links_ :
        /\ ~getSubChain(kin, f)
        /\ NameRank(f) < NameRank(n)
        /\ getSubChain(kin, n)
        /\ ~links_[n].jac_solver
    /\ \E n \in DOMAIN links_ : Bound(n)

====
